---- MODULE Spec2Model ----
(***************************************************************************)
(* ig-analyzer: the two variants of ig_analyze.py as one state machine.    *)
(*   variant "A" = src/.github/workflows/scripts/ig_analyze.py             *)
(*                 (embedded-JSON extraction)                              *)
(*   variant "B" = src/scripts/ig_analyze.py (visible-text extraction)     *)
(*                                                                         *)
(* Python values:                                                          *)
(*   Optional[int]   <<>> is None, <<n>> is the integer n                  *)
(*   float quotient  <<n, d>> is the exact quotient n / d (d > 0);         *)
(*                   binary rounding of floats is not modelled             *)
(*   str (href, URL) a tuple of its pieces, one character per element;     *)
(*                   the origin prefix is one element                      *)
(***************************************************************************)
EXTENDS Integers, Sequences, FiniteSets

\* ------------------------------------------------------------ bounds
\* counts found on a page range over 0..MaxCount
MaxCount == 1
\* anchors on a profile page (link collection on its own)
MaxAnchors == 3
\* largest limit argument tried on the command line
MaxLimit == 2
\* anchors on a profile page in a whole run
RunAnchors == 2

\* limit_posts when sys.argv[2] is absent
DefaultLimit == 12
\* sys.exit(2) of variant A's usage branch
UsageExitA == 2
\* sys.exit(0) of variant B's usage branch
UsageExitB == 0
\* exit status of the interpreter when an exception leaves asyncio.run or print
UncaughtExit == 1

\* ------------------------------------------------------------ Python values
None == <<>>
Some(n) == <<n>>
Opt == {None} \cup {Some(n) : n \in 0..MaxCount}

\* bool(v) of an Optional[int]
Truthy(v) == v # None /\ v[1] # 0
\* a or b
Or(a, b) == IF Truthy(a) THEN a ELSE b
\* v or 0
OrZero(v) == IF Truthy(v) THEN v[1] ELSE 0

\* sequences over S of length at most n
SeqUpTo(S, n) == UNION {[1..k -> S] : k \in 0..n}

RECURSIVE SumOver(_, _)
\* sum(f(x) for x in s), f given as the sequence of already mapped values
SumOver(s, k) == IF k = 0 THEN 0 ELSE s[k] + SumOver(s, k - 1)
Sum(s) == SumOver(s, Len(s))

RECURSIVE SelectIdx(_, _, _)
\* the indices k <= n of s (ascending) whose element is in keep
SelectIdx(s, keep, n) ==
    IF n = 0 THEN <<>>
    ELSE IF s[n] \in keep THEN Append(SelectIdx(s, keep, n - 1), n)
         ELSE SelectIdx(s, keep, n - 1)

\* ------------------------------------------------------------ hrefs and URLs
Origin == "https://www.instagram.com"
PostPrefix == <<"/", "p", "/">>
startswith(u, pre) == Len(u) >= Len(pre) /\ SubSeq(u, 1, Len(pre)) = pre

\* hrefs a profile page may carry: two posts, a reel, a bare "/p", and an
\* anchor without href (None)
HrefPool == { <<"/", "p", "/", "a">>, <<"/", "p", "/", "b">>,
              <<"/", "r", "/", "a">>, <<"/", "p">>, None }

\* "https://www.instagram.com" + u
AbsUrl(u) == <<Origin>> \o u

RECURSIVE PostHrefs(_, _)
\* the first n anchors' hrefs that pass the "/p/" test, made absolute, in page order
PostHrefs(anchors, n) ==
    IF n = 0 THEN <<>>
    ELSE IF anchors[n] # None /\ startswith(anchors[n], PostPrefix)
         THEN Append(PostHrefs(anchors, n - 1), AbsUrl(anchors[n]))
         ELSE PostHrefs(anchors, n - 1)

Range(s) == {s[k] : k \in 1..Len(s)}

RECURSIVE DedupeMutant(_, _)
\* the de-duplication with the membership test lost: every URL is kept
DedupeMutant(urls, n) ==
    IF n = 0 THEN <<>> ELSE Append(DedupeMutant(urls, n - 1), urls[n])

RECURSIVE Dedupe(_, _)
\* for u in urls: if u not in seen: out.append(u); seen.add(u)
\* (list(dict.fromkeys(urls)) in variant B)
Dedupe(urls, n) ==
    IF n = 0 THEN <<>>
    ELSE LET out == Dedupe(urls, n - 1)
         IN  IF urls[n] \in Range(out) THEN out ELSE Append(out, urls[n])

\* out[:limit], Python slicing: a negative limit counts from the end
SliceTo(out, limit) ==
    LET stop == IF limit >= 0
                THEN (IF limit < Len(out) THEN limit ELSE Len(out))
                ELSE (IF Len(out) + limit > 0 THEN Len(out) + limit ELSE 0)
    IN  SubSeq(out, 1, stop)

\* variant A's extract_recent_post_urls; variant B's inline collector
extract_recent_post_urls(anchors, limit) ==
    LET urls == PostHrefs(anchors, Len(anchors))
    IN  SliceTo(Dedupe(urls, Len(urls)), limit)

\* ------------------------------------------------------------ profile counts
NoCounts == [followers |-> None, following |-> None, posts |-> None]

\* A JSON blob as extract_profile_counts sees it: user is whether the walk
\* entry_data.ProfilePage[0].graphql.user ends in a non-empty dict (a blob of
\* another shape, or one whose walk raises, is skipped); the three fields are
\* what .get(edge, {}).get("count") returns.
Blobs == [user : BOOLEAN, followers : Opt, following : Opt, posts : Opt]

RECURSIVE extract_profile_counts(_, _)
\* the loop over the first n blobs
extract_profile_counts(blobs, n) ==
    IF n = 0 THEN NoCounts
    ELSE LET c == extract_profile_counts(blobs, n - 1)
             b == blobs[n]
         IN  IF b.user
             THEN [followers |-> Or(c.followers, b.followers),
                   following |-> Or(c.following, b.following),
                   posts     |-> Or(c.posts, b.posts)]
             ELSE c

\* Variant B's visible text: per word, None when the word is not in the text,
\* else what extract_numbers returns for the token before it; fault is whether
\* one of the three expressions raises (IndexError of split()[-1], ValueError
\* of float()).
Texts == [followers : Opt, following : Opt, posts : Opt, fault : BOOLEAN]
NoText == [followers |-> None, following |-> None, posts |-> None, fault |-> FALSE]

\* A meta tag: hit is whether "Followers" is in its content and the try body
\* completes; value is what extract_numbers returns for the token.
Metas == [hit : BOOLEAN, value : Opt]

RECURSIVE MetaFollowers(_, _, _)
\* the loop over the first n meta tags, followers being the value before it
MetaFollowers(followers, metas, n) ==
    IF n = 0 THEN followers
    ELSE LET f == MetaFollowers(followers, metas, n - 1)
         IN  IF metas[n].hit THEN metas[n].value ELSE f

\* variant B's profile statistics (text scan, then meta tags)
profile_stats_B(text, metas) ==
    [followers |-> MetaFollowers(text.followers, metas, Len(metas)),
     following |-> text.following,
     posts     |-> text.posts]

\* ------------------------------------------------------------ post pages
\* A post page. Variant A reads likes/comments (the counts of the page's
\* shortcode_media blob) and rx_likes/rx_comments (the regex fallback's match).
\* Variant B reads likes (extract_numbers of the "likes" span, None without a
\* span), ul (the number of comment <ul> elements) and fault (whether
\* extract_numbers raises on the span's text).
NoPost == [likes |-> None, comments |-> None, rx_likes |-> None,
           rx_comments |-> None, ul |-> 0, fault |-> FALSE]
RxHits == {None, Some(MaxCount)}
PostPagesA == {[NoPost EXCEPT !.likes = l, !.comments = c, !.rx_likes = rl, !.rx_comments = rc] :
                 l \in Opt, c \in Opt, rl \in RxHits, rc \in RxHits}
PostPagesB == {[NoPost EXCEPT !.likes = l, !.ul = n] : l \in Opt, n \in 0..MaxCount}
              \cup {[NoPost EXCEPT !.fault = TRUE, !.ul = n] : n \in 0..MaxCount}
PostPages(v) == IF v = "A" THEN PostPagesA ELSE PostPagesB

\* variant A's extract_like_comment_from_post_html
extract_like_comment_from_post_html(page) ==
    [likes    |-> IF page.likes = None THEN page.rx_likes ELSE page.likes,
     comments |-> IF page.comments = None THEN page.rx_comments ELSE page.comments]

\* variant B's inline extraction (the span's number, the <ul> count when > 0)
like_comment_B(page) ==
    [likes    |-> page.likes,
     comments |-> IF page.ul > 0 THEN Some(page.ul) ELSE None]

\* ------------------------------------------------------------ per-post record
PostStat(url, likes, comments, engagement) ==
    [url |-> url, likes |-> likes, comments |-> comments, engagement |-> engagement]

\* the except branch of the post loop
NullStat(url) == PostStat(url, None, None, None)

\* variant A: followers is counts.get("followers") or 0
engagement_A(followers, likes, comments) ==
    IF followers # 0 /\ (likes # None \/ comments # None)
    THEN <<OrZero(likes) + OrZero(comments), followers>>
    ELSE None

\* variant B: (likes or 0 + comments or 0) parses as likes or (0 + comments) or 0,
\* and 0 + None raises TypeError
raises_B(followers, likes, comments) ==
    Truthy(followers) /\ ~Truthy(likes) /\ comments = None

engagement_B(followers, likes, comments) ==
    IF Truthy(followers)
    THEN <<(IF Truthy(likes) THEN likes[1] ELSE comments[1]), followers[1]>>
    ELSE None

\* ------------------------------------------------------------ averages
\* exact quotients: a = b
RatEq(a, b) == a[1] * b[2] = b[1] * a[2]
RatAdd(a, b) == <<a[1] * b[2] + b[1] * a[2], a[2] * b[2]>>

RECURSIVE RatSum(_, _, _)
\* sum of the engagement of the posts at the first n indices of idx
RatSum(posts, idx, n) ==
    IF n = 0 THEN <<0, 1>>
    ELSE RatAdd(RatSum(posts, idx, n - 1), posts[idx[n]].engagement)

\* the indices of the posts whose engagement is not None
valid(posts) ==
    SelectIdx([k \in 1..Len(posts) |-> posts[k].engagement # None], {TRUE}, Len(posts))

avg_eng(posts) ==
    LET idx == valid(posts)
        total == RatSum(posts, idx, Len(idx))
    IN  IF Len(idx) > 0 THEN <<total[1], total[2] * Len(idx)>> ELSE None

\* the mean of the non-null values only
avg_likes_mutant(posts) ==
    LET idx == SelectIdx([k \in 1..Len(posts) |-> posts[k].likes # None], {TRUE}, Len(posts))
    IN  IF Len(idx) > 0
        THEN <<Sum([k \in 1..Len(idx) |-> posts[idx[k]].likes[1]]), Len(idx)>>
        ELSE None

avg_likes(posts) ==
    IF Len(posts) > 0
    THEN <<Sum([k \in 1..Len(posts) |-> OrZero(posts[k].likes)]), Len(posts)>>
    ELSE None

avg_comments(posts) ==
    IF Len(posts) > 0
    THEN <<Sum([k \in 1..Len(posts) |-> OrZero(posts[k].comments)]), Len(posts)>>
    ELSE None

NoResult ==
    [followers |-> None, following |-> None, posts_total |-> None,
     posts_sampled |-> 0, avg_like_estimate |-> None, avg_comment_estimate |-> None,
     avg_engagement_estimate |-> None, posts |-> <<>>]

\* the dict scrape_profile returns
Result(c, posts) ==
    [followers |-> c.followers, following |-> c.following, posts_total |-> c.posts,
     posts_sampled |-> Len(posts),
     avg_like_estimate |-> avg_likes(posts),
     avg_comment_estimate |-> avg_comments(posts),
     avg_engagement_estimate |-> avg_eng(posts),
     posts |-> posts]

\* ------------------------------------------------------------ summary
\* f"{ae*100:.2f}%" as hundredths of a percent (ties rounded up)
pct(ae) == (20000 * ae[1] + ae[2]) \div (2 * ae[2])

NoOutput == [usage |-> FALSE, profile |-> FALSE, counts |-> FALSE,
             averages |-> FALSE, engagement |-> "", pct |-> 0]

\* ------------------------------------------------------------ pages
NoHtml == [blobs |-> <<>>, text |-> NoText, metas |-> <<>>, anchors |-> <<>>]

\* a blob that is not a profile blob carries no counts
BlobSet == {b \in Blobs : ~b.user => (b.followers = None /\ b.following = None /\ b.posts = None)}

\* a meta tag that is skipped carries no value
MetaSet == {m \in Metas : ~m.hit => m.value = None}

\* profile pages of variant v with at most ns sources and at most na anchors,
\* sources drawn from bs (blobs), ts (texts) and Metas
ProfilePages(v, ns, na, bs, ts) ==
    IF v = "A"
    THEN {[NoHtml EXCEPT !.blobs = b, !.anchors = a] :
             b \in SeqUpTo(bs, ns), a \in SeqUpTo(HrefPool, na)}
    ELSE {[NoHtml EXCEPT !.text = t, !.metas = m, !.anchors = a] :
             t \in ts, m \in SeqUpTo(MetaSet, ns - 1), a \in SeqUpTo(HrefPool, na)}

\* the profile pages of a whole run: one source beside the text, and the
\* following and posts counts of a source agree
RunBlobs == {b \in BlobSet : b.following = b.posts}
RunTexts == {t \in Texts : t.following = t.posts}
RunPages(v) == ProfilePages(v, 2, RunAnchors, RunBlobs, RunTexts)

\* ------------------------------------------------------------ state
VARIABLES
    variant,      \* "A" or "B": which script runs
    argv,         \* [url: is sys.argv[1] given, limit: int(sys.argv[2]) or None]
    pc,           \* where the run is
    playwright,   \* the async_playwright() scope: "none", "running", "stopped"
    browser,      \* "none", "open", "closed" (closed by browser.close())
    context,      \* "none", "open", "closed" (closed by context.close())
    inflight,     \* page.goto calls awaiting their page
    gotos,        \* the URLs page.goto was called with, in order
    html,         \* the profile page's content
    phtml,        \* the current post page's content
    counts,       \* followers / following / posts of the profile
    post_links,   \* the collected post URLs
    i,            \* 1-based position of the post loop
    posts_data,   \* the PostStat records so far
    caught,       \* the loop positions whose except branch ran
    res,          \* what scrape_profile returned
    reports,      \* how many times save_reports wrote the three files
    out,          \* what was printed
    exit_code     \* None while running, else the process exit status

vars == <<variant, argv, pc, playwright, browser, context, inflight, gotos, html,
          phtml, counts, post_links, i, posts_data, caught, res, reports, out,
          exit_code>>

ProfileUrl == <<"profile_url">>

LimitArgs == {None} \cup {Some(n) : n \in (0 - 1)..MaxLimit}
Argvs == [url : BOOLEAN, limit : LimitArgs]

\* limit = int(sys.argv[2]) if len(sys.argv) > 2 else 12
limit_posts == IF argv.limit = None THEN DefaultLimit ELSE argv.limit[1]

Fresh ==
    /\ playwright = "none" /\ browser = "none" /\ context = "none"
    /\ inflight = 0 /\ gotos = <<>>
    /\ html = NoHtml /\ phtml = NoPost
    /\ counts = NoCounts /\ post_links = <<>> /\ i = 1
    /\ posts_data = <<>> /\ caught = {}
    /\ res = NoResult /\ reports = 0 /\ out = NoOutput /\ exit_code = None

Init ==
    /\ variant \in {"A", "B"}
    /\ argv \in Argvs
    /\ pc = "Idle"
    /\ Fresh

\* ------------------------------------------------------------ __main__
\* len(sys.argv) < 2: print the usage line and sys.exit
Usage ==
    /\ pc = "Idle" /\ ~argv.url
    /\ out' = [out EXCEPT !.usage = TRUE]
    /\ exit_code' = Some(IF variant = "A" THEN UsageExitA ELSE UsageExitB)
    /\ pc' = "Exited"
    /\ UNCHANGED <<variant, argv, playwright, browser, context, inflight, gotos,
                   html, phtml, counts, post_links, i, posts_data, caught, res, reports>>

\* asyncio.run(scrape_profile(url, limit_posts=limit)): the playwright scope opens
Start ==
    /\ pc = "Idle" /\ argv.url
    /\ playwright' = "running"
    /\ pc' = "Launching"
    /\ UNCHANGED <<variant, argv, browser, context, inflight, gotos, html, phtml,
                   counts, post_links, i, posts_data, caught, res, reports, out, exit_code>>

\* an exception leaves scrape_profile: the async with block is left, asyncio.run
\* raises, the interpreter ends with a traceback
Abort ==
    /\ playwright' = "stopped"
    /\ inflight' = 0
    /\ exit_code' = Some(UncaughtExit)
    /\ pc' = "Aborted"

\* ------------------------------------------------------------ scrape_profile
\* chromium.launch, new_context, new_page, then page.goto(url) is awaited
Launch ==
    /\ pc = "Launching"
    /\ browser' = "open" /\ context' = "open"
    /\ inflight' = inflight + 1
    /\ gotos' = Append(gotos, ProfileUrl)
    /\ pc' = "NavigatingProfile"
    /\ UNCHANGED <<variant, argv, playwright, html, phtml, counts, post_links, i,
                   posts_data, caught, res, reports, out, exit_code>>

\* chromium.launch raises
LaunchFail ==
    /\ pc = "Launching"
    /\ Abort
    /\ UNCHANGED <<variant, argv, browser, context, gotos, html, phtml, counts,
                   post_links, i, posts_data, caught, res, reports, out>>

\* the profile page loads; the cookie click is tried, html = await page.content()
NavProfileOk ==
    /\ pc = "NavigatingProfile"
    /\ \E page \in RunPages(variant) : html' = page
    /\ inflight' = inflight - 1
    /\ pc' = "ExtractingProfile"
    /\ UNCHANGED <<variant, argv, playwright, browser, context, gotos, phtml, counts,
                   post_links, i, posts_data, caught, res, reports, out, exit_code>>

\* page.goto(url) times out or fails: nothing catches it
NavProfileFail ==
    /\ pc = "NavigatingProfile"
    /\ Abort
    /\ UNCHANGED <<variant, argv, browser, context, gotos, html, phtml, counts,
                   post_links, i, posts_data, caught, res, reports, out>>

\* variant A: counts = extract_profile_counts(find_json_blobs(html))
\* variant B: the text scan (which may raise) and the meta tag loop
ExtractProfile ==
    /\ pc = "ExtractingProfile"
    /\ \/ /\ variant = "A"
          /\ counts' = extract_profile_counts(html.blobs, Len(html.blobs))
          /\ pc' = "CollectingLinks"
          /\ UNCHANGED <<playwright, inflight, exit_code>>
       \/ /\ variant = "B" /\ ~html.text.fault
          /\ counts' = profile_stats_B(html.text, html.metas)
          /\ pc' = "CollectingLinks"
          /\ UNCHANGED <<playwright, inflight, exit_code>>
       \/ /\ variant = "B" /\ html.text.fault
          /\ Abort
          /\ UNCHANGED counts
    /\ UNCHANGED <<variant, argv, browser, context, gotos, html, phtml, post_links, i,
                   posts_data, caught, res, reports, out>>

\* post_urls = extract_recent_post_urls(html, limit_posts); posts = []
CollectLinks ==
    /\ pc = "CollectingLinks"
    /\ post_links' = extract_recent_post_urls(html.anchors, limit_posts)
    /\ posts_data' = <<>>
    /\ i' = 1
    /\ pc' = "PostLoop"
    /\ UNCHANGED <<variant, argv, playwright, browser, context, inflight, gotos, html,
                   phtml, counts, caught, res, reports, out, exit_code>>

\* the for statement takes the next link and page.goto(link) is awaited;
\* the profile's html is not read again
NextPost ==
    /\ pc = "PostLoop" /\ i <= Len(post_links)
    /\ inflight' = inflight + 1
    /\ gotos' = Append(gotos, post_links[i])
    /\ html' = NoHtml
    /\ pc' = "NavigatingPost"
    /\ UNCHANGED <<variant, argv, playwright, browser, context, phtml, counts,
                   post_links, i, posts_data, caught, res, reports, out, exit_code>>

\* the post page loads: phtml = await page.content()
NavPostOk ==
    /\ pc = "NavigatingPost"
    /\ \E page \in PostPages(variant) : phtml' = page
    /\ inflight' = inflight - 1
    /\ pc' = "ExtractingPost"
    /\ UNCHANGED <<variant, argv, playwright, browser, context, gotos, html, counts,
                   post_links, i, posts_data, caught, res, reports, out, exit_code>>

\* an except branch that swallows the fault and appends nothing
ExceptMutant ==
    /\ posts_data' = posts_data
    /\ caught' = caught \cup {i}
    /\ i' = i + 1
    /\ phtml' = NoPost
    /\ pc' = "PostLoop"

\* the except branch: one null record for this link, and the loop goes on
Except ==
    /\ posts_data' = Append(posts_data, NullStat(post_links[i]))
    /\ caught' = caught \cup {i}
    /\ i' = i + 1
    /\ phtml' = NoPost
    /\ pc' = "PostLoop"

\* a failed navigation that is tried again
NavPostFailMutant ==
    /\ pc = "NavigatingPost"
    /\ Len(gotos) <= Len(post_links) + 1
    /\ gotos' = Append(gotos, post_links[i])
    /\ UNCHANGED <<variant, argv, pc, playwright, browser, context, inflight, html,
                   phtml, counts, post_links, i, posts_data, caught, res, reports,
                   out, exit_code>>

\* page.goto(link) (or a wait) raises inside the try
NavPostFail ==
    /\ pc = "NavigatingPost"
    /\ inflight' = inflight - 1
    /\ Except
    /\ UNCHANGED <<variant, argv, playwright, browser, context, gotos, html, counts,
                   post_links, res, reports, out, exit_code>>

\* the rest of the try body: extract likes and comments, append the record
ExtractPost ==
    /\ pc = "ExtractingPost"
    /\ \/ /\ variant = "A"
          /\ LET lc == extract_like_comment_from_post_html(phtml)
             IN  posts_data' = Append(posts_data,
                     PostStat(post_links[i], lc.likes, lc.comments,
                              engagement_A(OrZero(counts.followers), lc.likes, lc.comments)))
          /\ i' = i + 1 /\ phtml' = NoPost /\ pc' = "PostLoop"
          /\ UNCHANGED caught
       \/ /\ variant = "B"
          /\ LET lc == like_comment_B(phtml)
             IN  /\ ~phtml.fault
                 /\ ~raises_B(counts.followers, lc.likes, lc.comments)
                 /\ posts_data' = Append(posts_data,
                        PostStat(post_links[i], lc.likes, lc.comments,
                                 engagement_B(counts.followers, lc.likes, lc.comments)))
          /\ i' = i + 1 /\ phtml' = NoPost /\ pc' = "PostLoop"
          /\ UNCHANGED caught
       \/ /\ variant = "B"
          /\ LET lc == like_comment_B(phtml)
             IN  phtml.fault \/ raises_B(counts.followers, lc.likes, lc.comments)
          /\ Except
    /\ UNCHANGED <<variant, argv, playwright, browser, context, inflight, gotos, html,
                   counts, post_links, res, reports, out, exit_code>>

\* the loop is over. Variant A: await ctx.close(); await browser.close(), and
\* the async with block ends. Variant B goes on inside the block.
EndLoop ==
    /\ pc = "PostLoop" /\ i > Len(post_links)
    /\ html' = NoHtml
    /\ pc' = "Aggregating"
    /\ IF variant = "A"
       THEN context' = "closed" /\ browser' = "closed" /\ playwright' = "stopped"
       ELSE UNCHANGED <<context, browser, playwright>>
    /\ UNCHANGED <<variant, argv, inflight, gotos, phtml, counts, post_links, i,
                   posts_data, caught, res, reports, out, exit_code>>

\* the averages and the returned dict; variant B's return leaves the async
\* with block, with no close() call on the context or the browser
Aggregate ==
    /\ pc = "Aggregating"
    /\ res' = Result(counts, posts_data)
    /\ playwright' = "stopped"
    /\ pc' = "Writing"
    /\ UNCHANGED <<variant, argv, browser, context, inflight, gotos, html, phtml,
                   counts, post_links, i, posts_data, caught, reports, out, exit_code>>

\* save_reports(res): summary.json, summary.csv, posts.csv
save_reports ==
    /\ pc = "Writing"
    /\ reports' = reports + 1
    /\ pc' = "Printing"
    /\ UNCHANGED <<variant, argv, playwright, browser, context, inflight, gotos, html,
                   phtml, counts, post_links, i, posts_data, caught, res, out, exit_code>>

\* the summary. Variant A formats both averages with :.2f, which raises
\* TypeError on None, and prints "n/a" unless the engagement average is a
\* number; variant B prints the averages as they are and uses safe_pct.
PrintSummary ==
    /\ pc = "Printing"
    /\ \/ /\ variant = "A"
          /\ res.avg_like_estimate = None \/ res.avg_comment_estimate = None
          /\ out' = [out EXCEPT !.profile = TRUE, !.counts = TRUE]
          /\ exit_code' = Some(UncaughtExit)
          /\ pc' = "Aborted"
       \/ /\ variant = "B" \/ (res.avg_like_estimate # None /\ res.avg_comment_estimate # None)
          /\ out' = [out EXCEPT !.profile = TRUE, !.counts = TRUE, !.averages = TRUE,
                        !.engagement = IF res.avg_engagement_estimate = None
                                       THEN "n/a" ELSE "pct",
                        !.pct = IF res.avg_engagement_estimate = None
                                THEN 0 ELSE pct(res.avg_engagement_estimate)]
          /\ exit_code' = Some(0)
          /\ pc' = "Done"
    /\ UNCHANGED <<variant, argv, playwright, browser, context, inflight, gotos, html,
                   phtml, counts, post_links, i, posts_data, caught, res, reports>>

Next ==
    \/ Usage \/ Start \/ Launch \/ LaunchFail
    \/ NavProfileOk \/ NavProfileFail \/ ExtractProfile \/ CollectLinks
    \/ NextPost \/ NavPostOk \/ NavPostFail \/ ExtractPost \/ EndLoop
    \/ Aggregate \/ save_reports \/ PrintSummary

Spec == Init /\ [][Next]_vars

\* ------------------------------------------------------------ link collection alone
\* The state right after the profile page was read, for every page of up to
\* MaxAnchors anchors and every limit argument; CollectLinks is the only step.
InitLinks ==
    /\ variant \in {"A", "B"}
    /\ argv \in {a \in Argvs : a.url}
    /\ pc = "CollectingLinks"
    /\ playwright = "running" /\ browser = "open" /\ context = "open"
    /\ inflight = 0 /\ gotos = <<ProfileUrl>>
    /\ html \in {[NoHtml EXCEPT !.anchors = a] : a \in SeqUpTo(HrefPool, MaxAnchors)}
    /\ phtml = NoPost
    /\ counts = NoCounts /\ post_links = <<>> /\ i = 1
    /\ posts_data = <<>> /\ caught = {}
    /\ res = NoResult /\ reports = 0 /\ out = NoOutput /\ exit_code = None

NextLinks == CollectLinks

SpecLinks == InitLinks /\ [][NextLinks]_vars

\* ------------------------------------------------------------ shared predicates
\* scrape_profile has returned its result to __main__
Returned == pc \in {"Writing", "Printing", "Done"} \/ (pc = "Aborted" /\ reports > 0)

\* the post links are collected and the profile's html is still at hand
LinksCollected == pc = "PostLoop" /\ gotos = <<ProfileUrl>>

IsPostAnchor(a) == a # None /\ startswith(a, PostPrefix)

\* the place of u's first occurrence among the page's anchors
FirstIdx(anchors, u) ==
    CHOOSE j \in 1..Len(anchors) :
        /\ AbsUrl(anchors[j]) = u
        /\ \A k \in 1..(j - 1) : AbsUrl(anchors[k]) # u

DistinctPosts(anchors) ==
    {AbsUrl(anchors[j]) : j \in {k \in 1..Len(anchors) : IsPostAnchor(anchors[k])}}

\* only post links, none twice, in the order of first occurrence, and a
\* prefix of that order
LinksWellFormed ==
    LET anchors == html.anchors
        n == Len(post_links)
    IN  /\ \A k \in 1..n : post_links[k] \in DistinctPosts(anchors)
        /\ \A k, l \in 1..n : k # l => post_links[k] # post_links[l]
        /\ \A k, l \in 1..n :
              k < l => FirstIdx(anchors, post_links[k]) < FirstIdx(anchors, post_links[l])
        /\ \A u \in DistinctPosts(anchors) : \A k \in 1..n :
              FirstIdx(anchors, u) < FirstIdx(anchors, post_links[k])
                  => u \in Range(post_links)

MinOf(a, b) == IF a < b THEN a ELSE b
MaxOf(a, b) == IF a > b THEN a ELSE b

\* ------------------------------------------------------------ claims

\* C1 (as claimed): whenever a post's likes and comments are extracted, the
\* appended record's engagement is (likes or 0) + (comments or 0) over
\* followers when followers is a positive integer, and None when followers is
\* None or 0.
C1_EngagementFormula ==
    [][ (pc = "ExtractingPost" /\ ~phtml.fault)
          => LET lc == IF variant = "A" THEN extract_like_comment_from_post_html(phtml)
                       ELSE like_comment_B(phtml)
                 f == counts.followers
                 rec == posts_data'[Len(posts_data')]
             IN  /\ Truthy(f) =>
                       /\ rec.engagement # None
                       /\ RatEq(rec.engagement,
                                <<OrZero(lc.likes) + OrZero(lc.comments), f[1]>>)
                 /\ ~Truthy(f) => rec.engagement = None ]_vars

\* the values of one metric over the posts, as Optional quotients n/1
LikesOf(posts) == [k \in 1..Len(posts) |-> posts[k].likes]
CommentsOf(posts) == [k \in 1..Len(posts) |-> posts[k].comments]

NonNull(vals) == {k \in 1..Len(vals) : vals[k] # None}

RECURSIVE SetSum(_, _)
SetSum(vals, ks) ==
    IF ks = {} THEN 0
    ELSE LET k == CHOOSE x \in ks : TRUE
         IN  vals[k][1] + SetSum(vals, ks \ {k})

\* avg is the mean of the non-null values of vals, None when there is none
IsMeanOfNonNull(avg, vals) ==
    IF NonNull(vals) = {} THEN avg = None
    ELSE avg # None /\ avg[1] * Cardinality(NonNull(vals)) = SetSum(vals, NonNull(vals)) * avg[2]

\* avg is the mean over all of vals with None counted as 0, None when vals is empty
IsMeanNullAsZero(avg, vals) ==
    IF Len(vals) = 0 THEN avg = None
    ELSE avg # None /\ avg[1] * Len(vals) = SetSum(vals, NonNull(vals)) * avg[2]

RECURSIVE EngSum(_, _)
\* the sum of the engagement of the posts at ks, an exact quotient
EngSum(posts, ks) ==
    IF ks = {} THEN <<0, 1>>
    ELSE LET k == CHOOSE x \in ks : TRUE
         IN  RatAdd(posts[k].engagement, EngSum(posts, ks \ {k}))

EngIsMeanOfNonNull(avg, posts) ==
    LET ks == {k \in 1..Len(posts) : posts[k].engagement # None}
        total == EngSum(posts, ks)
    IN  IF ks = {} THEN avg = None
        ELSE avg # None /\ RatEq(avg, <<total[1], total[2] * Cardinality(ks)>>)

C3_AtMostLimit ==
    LinksCollected => (LinksWellFormed /\ Len(post_links) <= MaxOf(0, limit_posts))

\* C3 (amended): the collected list holds only post links, none twice, in
\* first-occurrence order; for a limit >= 0 it is the first min(limit, d) of
\* the d distinct post links, so at most limit entries; for a limit < 0 it is
\* the distinct post links without the last -limit of them.
C3_Links ==
    LinksCollected =>
        /\ LinksWellFormed
        /\ LET d == Cardinality(DistinctPosts(html.anchors))
           IN  Len(post_links) = IF limit_posts >= 0 THEN MinOf(limit_posts, d)
                                 ELSE MaxOf(0, d + limit_posts)

\* C3 witness: a page with a repeated post link and a second post, cut to a
\* limit of one.
C3_Witness ==
    /\ LinksCollected
    /\ limit_posts = 1 /\ Len(post_links) = 1
    /\ Cardinality(DistinctPosts(html.anchors)) = 2
    /\ \E a, b \in 1..Len(html.anchors) :
          a < b /\ html.anchors[a] = html.anchors[b] /\ AbsUrl(html.anchors[a]) = post_links[1]

InLoop == pc \in {"PostLoop", "NavigatingPost", "ExtractingPost"}
AfterLoop == pc \in {"Aggregating", "Writing", "Printing", "Done"} \/ (pc = "Aborted" /\ reports > 0)

\* C4: a fault in the post loop appends exactly one null record for that
\* link and the loop goes on: the records follow the links one to one and in
\* order, the loop never aborts the run, and posts_sampled is the number of
\* collected links whatever posts failed.
C4_OneRecordPerLink ==
    /\ InLoop => Len(posts_data) = i - 1 /\ i <= Len(post_links) + 1
    /\ \A k \in 1..Len(posts_data) :
          k <= Len(post_links) /\ posts_data[k].url = post_links[k]
    /\ \A k \in caught : k <= Len(posts_data) /\ posts_data[k] = NullStat(post_links[k])
    /\ (pc = "Aborted" /\ reports = 0) => posts_data = <<>> /\ Len(gotos) <= 1
    /\ AfterLoop => Len(posts_data) = Len(post_links)
    /\ Returned => res.posts_sampled = Len(post_links) /\ res.posts = posts_data

\* C4 witness: a returned result whose first post failed and whose second
\* post, processed after it, yielded likes.
C4_Witness ==
    /\ Returned
    /\ 1 \in caught /\ 2 \notin caught
    /\ Len(res.posts) = 2 /\ res.posts[2].likes # None

\* C5 (as claimed): a navigation failure never aborts the run, for the
\* profile URL as for a post URL.
C5_NavigationFailureSwallowed ==
    [][ (pc \in {"NavigatingProfile", "NavigatingPost"}) => ~(pc' = "Aborted") ]_vars

\* C6 (as claimed): once scrape_profile has returned, the reports are written,
\* the summary is printed whole and the exit status is 0, with "n/a" for an
\* undefined engagement average; no fault is raised while printing.
C6_SummaryAlwaysPrinted ==
    /\ pc = "Aborted" => reports = 0
    /\ pc = "Done" =>
          /\ reports = 1 /\ exit_code = Some(0)
          /\ out.profile /\ out.counts /\ out.averages
          /\ (res.avg_engagement_estimate = None) <=> (out.engagement = "n/a")

\* C7 (as claimed): without the URL argument both variants print the usage
\* line and exit with a non-zero status, with no browser, navigation or report.
C7_UsageExitNonZero ==
    pc = "Exited" =>
        /\ out.usage
        /\ exit_code # None /\ exit_code # Some(0)
        /\ browser = "none" /\ playwright = "none" /\ gotos = <<>> /\ reports = 0

\* the steps of the linear run (Launching opens the browser before the
\* profile navigation, PostLoop is the head of the for statement, Printing
\* follows the writing of the reports)
PhaseSteps ==
    { <<"Idle", "Launching">>, <<"Launching", "NavigatingProfile">>,
      <<"NavigatingProfile", "ExtractingProfile">>,
      <<"ExtractingProfile", "CollectingLinks">>, <<"CollectingLinks", "PostLoop">>,
      <<"PostLoop", "NavigatingPost">>, <<"NavigatingPost", "ExtractingPost">>,
      <<"ExtractingPost", "PostLoop">>, <<"NavigatingPost", "PostLoop">>,
      <<"PostLoop", "Aggregating">>, <<"Aggregating", "Writing">>,
      <<"Writing", "Printing">>, <<"Printing", "Done">> }

\* C8: every step follows the linear phase order or ends the run; the
\* profile is navigated once, first; the post links are navigated in
\* discovery order, each at most once; at most one page load is in flight;
\* the averages are computed only after the last post; the reports are
\* written once, after the aggregation.
C8_LinearRun ==
    /\ [][ (pc' \in {"Exited", "Aborted"}) \/ (<<pc, pc'>> \in PhaseSteps) ]_pc
    /\ [][ res' # res => (pc = "Aggregating" /\ i = Len(post_links) + 1 /\ inflight = 0) ]_vars
    /\ [][ reports' # reports =>
             (pc = "Writing" /\ reports = 0 /\ reports' = 1 /\ res = Result(counts, posts_data)) ]_vars
    /\ [](inflight \in {0, 1})
    /\ [](/\ Len(gotos) <= Len(post_links) + 1
          /\ \A k \in 1..Len(gotos) :
                gotos[k] = IF k = 1 THEN ProfileUrl ELSE post_links[k - 1])
    /\ [](pc \notin {"Idle", "Launching", "Exited"} /\ (pc = "Aborted" => browser = "open")
             => Len(gotos) >= 1)
    /\ [](pc = "NavigatingPost" => Len(gotos) = i + 1)
    /\ [](pc = "Done" => reports = 1 /\ Len(gotos) = Len(post_links) + 1)

\* C8 witness: a finished run over two posts, the first of which failed.
C8_Witness ==
    pc = "Done" /\ Len(post_links) = 2 /\ 1 \in caught /\ reports = 1

RECURSIVE FirstNonNull(_, _)
\* the first value of vals[k..] that is not None, None when there is none
FirstNonNull(vals, k) ==
    IF k > Len(vals) THEN None
    ELSE IF vals[k] # None THEN vals[k] ELSE FirstNonNull(vals, k + 1)

\* the values the sources of the profile page yield for a field, in the
\* order the code examines them
SourcesOf(field) ==
    IF variant = "A"
    THEN [k \in 1..Len(html.blobs) |->
             IF field = "followers" THEN html.blobs[k].followers
             ELSE IF field = "following" THEN html.blobs[k].following
             ELSE html.blobs[k].posts]
    ELSE IF field = "followers"
         THEN <<html.text.followers>> \o [k \in 1..Len(html.metas) |-> html.metas[k].value]
         ELSE IF field = "following" THEN <<html.text.following>>
         ELSE <<html.text.posts>>

\* C9 (as claimed): each field is the first non-null value its sources yield
\* in order (0 being a value), and None only if every source yields None.
C9_FirstNonNullWins ==
    pc = "CollectingLinks" =>
        /\ counts.followers = FirstNonNull(SourcesOf("followers"), 1)
        /\ counts.following = FirstNonNull(SourcesOf("following"), 1)
        /\ counts.posts = FirstNonNull(SourcesOf("posts"), 1)

\* C10 (as claimed): when scrape_profile has returned its result, the browser
\* context and the browser have been closed by a close() call, in both variants.
C10_BrowserClosed ==
    Returned => context = "closed" /\ browser = "closed"

====
